---- MODULE Spec2Model ----
(***************************************************************************)
(* avr-kernel: the cooperative kernel of src/kernel/core/kernel.c as a     *)
(* state machine.  The bitsets are sets of bit positions 0..7 of one byte, *)
(* the counters keep their widths (16 and 32 bits).  Thread-context code   *)
(* is split exactly where the tick ISR can run between two of its memory   *)
(* accesses; the ISR itself runs with interrupts masked and is one step.   *)
(* kn_yield and kn_scheduler are assembly that is not part of kernel.c;    *)
(* they are modelled from the specification (section 4.3).                 *)
(***************************************************************************)
EXTENDS Integers, FiniteSets, Sequences, TLC

VARIABLES
  MAX_THREADS,           \* config.h: the slot count, fixed for a whole run
  kn_cur_thread,         \* kernel.c:117
  kn_cur_thread_mask,    \* kernel.c:120
  kn_disabled_threads,   \* kernel.c:123
  kn_suspended_threads,  \* kernel.c:126
  kn_sleeping_threads,   \* kernel.c:129
  kn_stack,              \* kernel.c:132
  kn_sleep_counter,      \* kernel.c:135
  kn_system_counter,     \* kernel.c:138
  sreg_i,                \* the CPU's global interrupt enable flag (SREG.I)
  pc,                    \* where the CPU is in thread context
  ctx,                   \* per slot: where its saved context resumes
  frame,                 \* per slot: the bootstrap frame create wrote
  cr,                    \* locals of the kn_create_thread_impl in progress
  ll_millis,             \* per slot: kn_sleep_long's local `millis`
  prog,                  \* per slot: the entry point and argument it runs
  ticks,                 \* ISR executions so far
  wraps,                 \* overflows of kn_system_counter so far
  ticked,                \* the last step was the tick ISR
  \* history variables, written by the observers below, read by no action
  susp_log,              \* per slot: how its suspension last changed
  sleep_call,            \* per slot: T and ms of its kn_sleep call in progress
  millis_obs,            \* what the last kn_millis() returned
  rr,                    \* the round-robin watch of SpecSched
  last,                  \* the call of the last step (SpecCalls)
  sl                     \* the chunk run of kn_sleep_long (SpecLong)

kvars == <<MAX_THREADS, kn_cur_thread, kn_cur_thread_mask, kn_disabled_threads,
           kn_suspended_threads, kn_sleeping_threads, kn_stack,
           kn_sleep_counter, kn_system_counter, sreg_i, pc, ctx, frame, cr,
           ll_millis, prog, ticks, wraps, ticked>>
ovars == <<susp_log, sleep_call, millis_obs, rr, last, sl>>
vars == <<kvars, ovars>>

----------------------------------------------------------------------------
(* Bounds of the model *)
MaxThreads == 2
MaxTicks == 3
MaxSleep == 2
MaxCalls == 1
IdleSleep == 5
IdleTicks == 6

(* Program constants *)
UINT16_MAX == 65535
UINT16_MOD == 65536
INITIAL_STACK_USAGE == 25
CONTEXT_SIZE == 18
THREAD0 == 0
MAX_SLOTS == 8

Bits == 0..7
Threads == 0..(MAX_THREADS - 1)
None == [none |-> TRUE]

Entries == {"E1"}
Args == {"A1"}
SleepArgs == 0..MaxSleep

\* uint32_t values are kept as two 16-bit words, [hi, lo], the way the 8-bit
\* CPU computes them: with carry and borrow between the words
U32(hi, lo) == [hi |-> hi, lo |-> lo]
U32Zero == U32(0, 0)
U32Max == U32(UINT16_MAX, UINT16_MAX)
\* x + n for 0 <= n <= UINT16_MAX, not reduced: hi = UINT16_MOD is 2^32
U32Plus(x, n) ==
  LET l == x.lo + n IN U32(x.hi + (l \div UINT16_MOD), l % UINT16_MOD)
\* x + n reduced to 32 bits
U32Add(x, n) ==
  LET r == U32Plus(x, n) IN U32(r.hi % UINT16_MOD, r.lo)
\* x - n reduced to 32 bits, for 0 <= n <= UINT16_MAX
U32Sub(x, n) ==
  IF x.lo >= n THEN U32(x.hi, x.lo - n)
  ELSE U32((x.hi - 1) % UINT16_MOD, x.lo + UINT16_MOD - n)
U32Le(x, y) == x.hi < y.hi \/ (x.hi = y.hi /\ x.lo <= y.lo)
U32Lt(x, y) == x.hi < y.hi \/ (x.hi = y.hi /\ x.lo < y.lo)

LongArgs == {U32(0, 0), U32(0, 1)}

\* kernel.c:45-47 and util.h: the mask of a thread id is the singleton bit
bit_to_mask(t_id) == {t_id}

\* kernel.c:56-79: the base of each slot's stack region (stacks.h fixes the
\* addresses; one region of 256 bytes per slot, growing down from its base)
kn_stack_base(t_id) == 256 * (t_id + 2) - 1

NoThread == 0 - 1

----------------------------------------------------------------------------
(* kernel.c:390-417, the tick ISR *)

\* a counter that counts down
IsrCounterInc_Mut(c) == U32Sub(c, 1)

\* kernel.c:392: kn_system_counter++ on a uint32_t
IsrCounterInc(c) == U32Add(c, 1)

\* a sleep counter that is never decremented
IsrCounterDec_Mut(c) == c

\* kernel.c:406: --kn_sleep_counter[t_id] on a uint16_t
IsrCounterDec(c) == (c - 1) % UINT16_MOD

\* a walk that goes on to MAX_THREADS whatever the snapshot holds
IsrContinue_Mut(sleeping, t_id) == t_id < MAX_THREADS

\* kernel.c:401: while (sleeping && (t_id < MAX_THREADS))
IsrContinue(sleeping, t_id) == sleeping # {} /\ t_id < MAX_THREADS

\* a walk that takes every slot it examines for a sleeper
IsrSlotAsleep_Mut(sleeping, t_id) == TRUE

\* kernel.c:404: if (sleeping & mask)
IsrSlotAsleep(sleeping, t_id) == t_id \in sleeping

\* kernel.c:401-414: the walk over the snapshot `sleeping`; the result keeps
\* the final t_id, the number of slots the loop examined
RECURSIVE IsrLoop(_, _, _)
IsrLoop(sleeping, t_id, counter) ==
  IF IsrContinue(sleeping, t_id)
  THEN IF IsrSlotAsleep(sleeping, t_id)
       THEN LET c == IsrCounterDec(counter[t_id])
            IN  IsrLoop(IF c = 0 THEN sleeping \ bit_to_mask(t_id) ELSE sleeping,
                        t_id + 1, [counter EXCEPT ![t_id] = c])
       ELSE IsrLoop(sleeping, t_id + 1, counter)
  ELSE [sleeping |-> sleeping, t_id |-> t_id, counter |-> counter]

----------------------------------------------------------------------------
(* kn_scheduler (assembly, not in kernel.c): specification section 4.3 *)

\* the union the selection tests
SchedBlocked ==
  kn_disabled_threads \cup kn_suspended_threads \cup kn_sleeping_threads

Runnable(t_id) == t_id \notin SchedBlocked

\* round robin: the first runnable slot among cur+1, cur+2, ..., cur (mod N);
\* k slots have been examined; NoThread after a full round
\* a fixed-priority scan: always from slot 0
RECURSIVE SchedScan_Mut(_, _)
SchedScan_Mut(cur, k) ==
  IF k >= MAX_THREADS THEN NoThread
  ELSE IF Runnable(k) THEN k ELSE SchedScan_Mut(cur, k + 1)

RECURSIVE SchedScan(_, _)
SchedScan(cur, k) ==
  IF k >= MAX_THREADS THEN NoThread
  ELSE LET cand == (cur + 1 + k) % MAX_THREADS
       IN  IF Runnable(cand) THEN cand ELSE SchedScan(cur, k + 1)

\* the stack pointer kn_yield stores: the caller's frames and the saved
\* registers lie between it and the base
YieldFrame(at) == CONTEXT_SIZE + (IF at = "app" THEN 2 ELSE 4)

----------------------------------------------------------------------------
(* kernel.c:306-325, one pass of kn_sleep_long's loop body *)

\* a loop body that takes 2^16 off the remainder for a chunk of 2^16 - 1
SleepLongPass_Mut(millis) ==
  IF U32Lt(U32(0, UINT16_MAX), millis)
  THEN [sleep_time |-> UINT16_MAX, millis |-> U32Sub(U32Sub(millis, UINT16_MAX), 1)]
  ELSE [sleep_time |-> millis.lo, millis |-> U32Zero]

\* a test against 2^16 in place of UINT16_MAX
LongFullChunk_Mut(millis) == U32Lt(U32(1, 0), millis)

\* kernel.c:312: if (millis > UINT16_MAX)
LongFullChunk(millis) == U32Lt(U32(0, UINT16_MAX), millis)

SleepLongPass(millis) ==
  IF LongFullChunk(millis)
  THEN [sleep_time |-> UINT16_MAX, millis |-> U32Sub(millis, UINT16_MAX)]
  ELSE [sleep_time |-> millis.lo, millis |-> U32Zero]

----------------------------------------------------------------------------
(* kernel.c:239-286, kn_init: the state main() starts in *)

KernelInit(n, start) ==
  /\ MAX_THREADS = n
  /\ kn_stack = [i \in 0..(n - 1) |-> kn_stack_base(i)]
  /\ kn_sleep_counter = [i \in 0..(n - 1) |-> 0]
  /\ kn_cur_thread = THREAD0
  /\ kn_cur_thread_mask = bit_to_mask(THREAD0)
  /\ kn_disabled_threads = Bits \ bit_to_mask(THREAD0)
  /\ kn_suspended_threads = {}
  /\ kn_sleeping_threads = {}
  /\ kn_system_counter = start
  /\ pc = "app"
  /\ ctx = [i \in 0..(n - 1) |-> IF i = THREAD0 THEN "running" ELSE "none"]
  /\ frame = [i \in 0..(n - 1) |-> None]
  /\ prog = [i \in 0..(n - 1) |-> IF i = THREAD0 THEN [entry |-> "main"] ELSE None]
  /\ cr = None
  /\ ll_millis = [i \in 0..(n - 1) |-> U32Zero]
  /\ ticks = 0
  /\ wraps = 0
  /\ ticked = FALSE

\* no call yet
LastInit == [ev |-> [op |-> "init"], rep |-> FALSE, woken |-> {}]

SlIdle == [arg |-> U32Zero, millis |-> U32Zero, sleep_time |-> 0,
           sum |-> U32Zero, n |-> 0, at |-> "idle"]

ObserversInit ==
  /\ susp_log = [i \in Threads |-> "run"]
  /\ sleep_call = [i \in Threads |-> None]
  /\ millis_obs = [prev |-> None, last |-> None]
  /\ rr = None
  /\ last = LastInit
  /\ sl = SlIdle

Init ==
  /\ \E n \in 1..MaxThreads : KernelInit(n, U32Zero)
  /\ sreg_i = FALSE
  /\ ObserversInit

----------------------------------------------------------------------------
(* The scheduler's switch, shared by kn_yield and kn_scheduler: c is the    *)
(* table of saved contexts at the time of the selection.  With no runnable  *)
(* slot the scheduler idles with interrupts enabled.                        *)
Schedule(c) ==
  LET next == SchedScan(kn_cur_thread, 0)
  IN  IF next # NoThread
      THEN /\ kn_cur_thread' = next
           /\ kn_cur_thread_mask' = bit_to_mask(next)
           /\ pc' = c[next]
           /\ ctx' = [c EXCEPT ![next] = "running"]
           /\ sreg_i' = sreg_i
      ELSE /\ pc' = "idle"
           /\ sreg_i' = TRUE
           /\ ctx' = c
           /\ UNCHANGED <<kn_cur_thread, kn_cur_thread_mask>>

\* kn_yield (assembly): save the caller's context, then select
kn_yield ==
  /\ pc \in {"app", "sleep_yield", "suspend_yield"}
  /\ LET ret == CASE pc = "app" -> "yield_ret"
                  [] pc = "sleep_yield" -> "sleep_ret"
                  [] pc = "suspend_yield" -> "suspend_ret"
     IN  /\ kn_stack' = [kn_stack EXCEPT ![kn_cur_thread] =
                           kn_stack_base(kn_cur_thread) - YieldFrame(pc)]
         /\ Schedule([ctx EXCEPT ![kn_cur_thread] = ret])
  /\ ticked' = FALSE
  /\ UNCHANGED <<MAX_THREADS, kn_disabled_threads, kn_suspended_threads,
                 kn_sleeping_threads, kn_sleep_counter, kn_system_counter,
                 frame, cr, ll_millis, prog, ticks, wraps>>

\* kn_scheduler (assembly): entered without saving from kn_disable and
\* kn_create_thread_impl, and retried after each interrupt while idling
kn_scheduler ==
  /\ pc = "sched_call" \/ (pc = "idle" /\ ticked)
  /\ Schedule(ctx)
  /\ cr' = None
  /\ ticked' = FALSE
  /\ UNCHANGED <<MAX_THREADS, kn_disabled_threads, kn_suspended_threads,
                 kn_sleeping_threads, kn_stack, kn_sleep_counter,
                 kn_system_counter, frame, ll_millis, prog, ticks, wraps>>

\* kn_thread_bootstrap (assembly): pops the frame and jumps to the entry point
kn_thread_bootstrap ==
  /\ pc = "boot"
  /\ prog' = [prog EXCEPT ![kn_cur_thread] =
                [entry |-> frame[kn_cur_thread].entry,
                 arg |-> frame[kn_cur_thread].arg]]
  /\ frame' = [frame EXCEPT ![kn_cur_thread] = None]
  /\ pc' = "app"
  /\ ticked' = FALSE
  /\ UNCHANGED <<MAX_THREADS, kn_cur_thread, kn_cur_thread_mask,
                 kn_disabled_threads, kn_suspended_threads,
                 kn_sleeping_threads, kn_stack, kn_sleep_counter,
                 kn_system_counter, sreg_i, ctx, cr, ll_millis, ticks,
                 wraps>>

----------------------------------------------------------------------------
(* kernel.c:198-237, kn_create_thread_impl.  `kn_sleeping_threads &= ~mask` *)
(* (line 228) is a load, an AND and a store with interrupts as the caller   *)
(* left them: the function is split between the load and the store.        *)

\* a create that leaves the saved stack pointer where it was
CreateStack_Mut(t_id) == kn_stack[t_id]

\* kernel.c:209-210
CreateStack(t_id) == kn_stack_base(t_id) - INITIAL_STACK_USAGE

\* a create that leaves the sleeping bit as it was loaded
CreateSleeping_Mut(loaded, mask) == loaded

\* kernel.c:228, the value stored: the byte loaded earlier without the mask
CreateSleeping(loaded, mask) == loaded \ mask

\* kernel.c:229-230
CreateSuspended(suspended, mask) ==
  IF suspended THEN kn_suspended_threads \cup mask
  ELSE kn_suspended_threads \ mask

\* kernel.c:209-227 and the load of line 228
CreateBegin(t_id, entry_point, suspended, arg) ==
  /\ pc = "app"
  /\ t_id \in Threads
  /\ kn_stack' = [kn_stack EXCEPT ![t_id] = CreateStack(t_id)]
  /\ frame' = [frame EXCEPT ![t_id] =
                 [entry |-> entry_point, arg |-> arg, t_id |-> t_id]]
  /\ ctx' = [ctx EXCEPT ![t_id] = "boot"]
  /\ ll_millis' = [ll_millis EXCEPT ![t_id] = U32Zero]
  /\ kn_disabled_threads' = kn_disabled_threads \ bit_to_mask(t_id)
  /\ cr' = [t_id |-> t_id, suspended |-> suspended,
            mask |-> bit_to_mask(t_id), loaded |-> kn_sleeping_threads]
  /\ pc' = "create_wr"
  /\ ticked' = FALSE
  /\ UNCHANGED <<MAX_THREADS, kn_cur_thread, kn_cur_thread_mask,
                 kn_suspended_threads, kn_sleeping_threads, kn_sleep_counter,
                 kn_system_counter, sreg_i, prog, ticks, wraps>>

\* the store of line 228, and kernel.c:229-236
CreateWrite ==
  /\ pc = "create_wr"
  /\ kn_sleeping_threads' = CreateSleeping(cr.loaded, cr.mask)
  /\ kn_suspended_threads' = CreateSuspended(cr.suspended, cr.mask)
  /\ kn_sleep_counter' = [kn_sleep_counter EXCEPT ![cr.t_id] = 0]
  /\ pc' = IF cr.t_id = kn_cur_thread THEN "sched_call" ELSE "create_ret"
  /\ ticked' = FALSE
  /\ UNCHANGED <<MAX_THREADS, kn_cur_thread, kn_cur_thread_mask,
                 kn_disabled_threads, kn_stack, kn_system_counter, sreg_i,
                 ctx, frame, cr, ll_millis, prog, ticks, wraps>>

----------------------------------------------------------------------------
(* kernel.c:359-383 *)

\* a kn_disable that always returns to its caller
DisableEntersScheduler_Mut(t_id) == FALSE

\* kernel.c:363
DisableEntersScheduler(t_id) == t_id = kn_cur_thread

\* a kn_disable that toggles the bit
DisableDisabled_Mut(t_id) ==
  (kn_disabled_threads \ bit_to_mask(t_id)) \cup
  (bit_to_mask(t_id) \ kn_disabled_threads)

\* kernel.c:362
DisableDisabled(t_id) == kn_disabled_threads \cup bit_to_mask(t_id)

kn_disable(t_id) ==
  /\ pc = "app"
  /\ t_id \in Threads
  /\ kn_disabled_threads' = DisableDisabled(t_id)
  /\ pc' = IF DisableEntersScheduler(t_id) THEN "sched_call" ELSE "app"
  /\ ticked' = FALSE
  /\ UNCHANGED <<MAX_THREADS, kn_cur_thread, kn_cur_thread_mask,
                 kn_suspended_threads, kn_sleeping_threads, kn_stack,
                 kn_sleep_counter, kn_system_counter, sreg_i, ctx, frame, cr,
                 ll_millis, prog, ticks, wraps>>

\* a kn_resume that resumes every slot
ResumeSuspended_Mut(t_id) == {}

\* kernel.c:372
ResumeSuspended(t_id) == kn_suspended_threads \ bit_to_mask(t_id)

kn_resume(t_id) ==
  /\ pc = "app"
  /\ t_id \in Threads
  /\ kn_suspended_threads' = ResumeSuspended(t_id)
  /\ pc' = "app"
  /\ ticked' = FALSE
  /\ UNCHANGED <<MAX_THREADS, kn_cur_thread, kn_cur_thread_mask,
                 kn_disabled_threads, kn_sleeping_threads, kn_stack,
                 kn_sleep_counter, kn_system_counter, sreg_i, ctx, frame, cr,
                 ll_millis, prog, ticks, wraps>>

\* a kn_suspend that sets no bit
SuspendSuspended_Mut(t_id) == kn_suspended_threads

\* kernel.c:378
SuspendSuspended(t_id) == kn_suspended_threads \cup bit_to_mask(t_id)

\* a kn_suspend that always yields
SuspendYields_Mut(t_id) == TRUE

\* kernel.c:379
SuspendYields(t_id) == t_id = kn_cur_thread

kn_suspend(t_id) ==
  /\ pc = "app"
  /\ t_id \in Threads
  /\ kn_suspended_threads' = SuspendSuspended(t_id)
  /\ pc' = IF SuspendYields(t_id) THEN "suspend_yield" ELSE "app"
  /\ ticked' = FALSE
  /\ UNCHANGED <<MAX_THREADS, kn_cur_thread, kn_cur_thread_mask,
                 kn_disabled_threads, kn_sleeping_threads, kn_stack,
                 kn_sleep_counter, kn_system_counter, sreg_i, ctx, frame, cr,
                 ll_millis, prog, ticks, wraps>>

----------------------------------------------------------------------------
(* kernel.c:292-335 *)

\* a kn_sleep that sets no sleeping bit
SleepSleeping_Mut(sleeping, mask) == sleeping

\* kernel.c:300
SleepSleeping(sleeping, mask) == sleeping \cup mask

\* kernel.c:294-301: the ATOMIC_BLOCK of kn_sleep, one step; the call of
\* kn_yield (line 303) follows as a step of its own
SleepCommit(millis) ==
  /\ kn_sleep_counter' = [kn_sleep_counter EXCEPT ![kn_cur_thread] = millis]
  /\ kn_sleeping_threads' = SleepSleeping(kn_sleeping_threads, bit_to_mask(kn_cur_thread))
  /\ pc' = "sleep_yield"

kn_sleep(millis) ==
  /\ pc = "app"
  /\ SleepCommit(millis)
  /\ ticked' = FALSE
  /\ UNCHANGED <<MAX_THREADS, kn_cur_thread, kn_cur_thread_mask,
                 kn_disabled_threads, kn_suspended_threads, kn_stack,
                 kn_system_counter, sreg_i, ctx, frame, cr, ll_millis, prog,
                 ticks, wraps>>

\* kernel.c:306-325 up to the first kn_sleep
kn_sleep_long(millis) ==
  /\ pc = "app"
  /\ IF millis = U32Zero
     THEN UNCHANGED <<kn_sleep_counter, kn_sleeping_threads, pc, ll_millis>>
     ELSE LET p == SleepLongPass(millis)
          IN  /\ ll_millis' = [ll_millis EXCEPT ![kn_cur_thread] = p.millis]
              /\ SleepCommit(p.sleep_time)
  /\ ticked' = FALSE
  /\ UNCHANGED <<MAX_THREADS, kn_cur_thread, kn_cur_thread_mask,
                 kn_disabled_threads, kn_suspended_threads, kn_stack,
                 kn_system_counter, sreg_i, ctx, frame, cr, prog, ticks,
                 wraps>>

\* kernel.c:304: kn_sleep returns to its caller, the application or the loop
\* of kn_sleep_long (kernel.c:310-324), which sleeps its next chunk
SleepReturn ==
  /\ pc = "sleep_ret"
  /\ IF ll_millis[kn_cur_thread] # U32Zero
     THEN LET p == SleepLongPass(ll_millis[kn_cur_thread])
          IN  /\ ll_millis' = [ll_millis EXCEPT ![kn_cur_thread] = p.millis]
              /\ SleepCommit(p.sleep_time)
     ELSE /\ pc' = "app"
          /\ UNCHANGED <<kn_sleep_counter, kn_sleeping_threads, ll_millis>>
  /\ ticked' = FALSE
  /\ UNCHANGED <<MAX_THREADS, kn_cur_thread, kn_cur_thread_mask,
                 kn_disabled_threads, kn_suspended_threads, kn_stack,
                 kn_system_counter, sreg_i, ctx, frame, cr, prog, ticks,
                 wraps>>

\* kn_yield, kn_suspend and kn_create_thread_impl return to the application
ReturnToCaller ==
  /\ pc \in {"yield_ret", "suspend_ret", "create_ret"}
  /\ pc' = "app"
  /\ cr' = None
  /\ ticked' = FALSE
  /\ UNCHANGED <<MAX_THREADS, kn_cur_thread, kn_cur_thread_mask,
                 kn_disabled_threads, kn_suspended_threads,
                 kn_sleeping_threads, kn_stack, kn_sleep_counter,
                 kn_system_counter, sreg_i, ctx, frame, ll_millis, prog,
                 ticks, wraps>>

\* kernel.c:337-357: the query predicates
ThreadEnabled(t_id) == (kn_disabled_threads \cap bit_to_mask(t_id)) = {}

ThreadSuspended(t_id) ==
  LET mask == bit_to_mask(t_id)
  IN  (kn_disabled_threads \cap mask) = {} /\ (kn_suspended_threads \cap mask) # {}

\* a query that does not look at the disabled bit
ThreadSleeping_Mut(t_id) == (kn_sleeping_threads \cap bit_to_mask(t_id)) # {}

ThreadSleeping(t_id) ==
  LET mask == bit_to_mask(t_id)
  IN  (kn_disabled_threads \cap mask) = {} /\ (kn_sleeping_threads \cap mask) # {}

\* a query reads the state and returns to its caller
Query(t_id) ==
  /\ pc = "app"
  /\ t_id \in Threads
  /\ ticked' = FALSE
  /\ UNCHANGED <<MAX_THREADS, kn_cur_thread, kn_cur_thread_mask,
                 kn_disabled_threads, kn_suspended_threads,
                 kn_sleeping_threads, kn_stack, kn_sleep_counter,
                 kn_system_counter, sreg_i, pc, ctx, frame, cr, ll_millis,
                 prog, ticks, wraps>>

kn_thread_enabled(t_id) == Query(t_id)
kn_thread_suspended(t_id) == Query(t_id)
kn_thread_sleeping(t_id) == Query(t_id)

\* kernel.c:327-335
\* the value returned
MillisValue == kn_system_counter

kn_millis ==
  /\ pc = "app"
  /\ ticked' = FALSE
  /\ UNCHANGED <<MAX_THREADS, kn_cur_thread, kn_cur_thread_mask,
                 kn_disabled_threads, kn_suspended_threads,
                 kn_sleeping_threads, kn_stack, kn_sleep_counter,
                 kn_system_counter, sreg_i, pc, ctx, frame, cr, ll_millis,
                 prog, ticks, wraps>>

\* the application's sei(): kn_init leaves interrupts as they were
AppSei ==
  /\ pc = "app"
  /\ sreg_i' = TRUE
  /\ ticked' = FALSE
  /\ UNCHANGED <<MAX_THREADS, kn_cur_thread, kn_cur_thread_mask,
                 kn_disabled_threads, kn_suspended_threads,
                 kn_sleeping_threads, kn_stack, kn_sleep_counter,
                 kn_system_counter, pc, ctx, frame, cr, ll_millis, prog,
                 ticks, wraps>>

----------------------------------------------------------------------------
(* kernel.c:390-417: the tick ISR, taken whenever interrupts are enabled; *)
(* a run has at most `limit` ticks                                        *)
Tick(limit) ==
  /\ sreg_i
  /\ ticks < limit
  /\ kn_system_counter' = IsrCounterInc(kn_system_counter)
  /\ wraps' = IF kn_system_counter = U32Max THEN wraps + 1 ELSE wraps
  /\ LET r == IsrLoop(kn_sleeping_threads, THREAD0, kn_sleep_counter)
     IN  /\ kn_sleeping_threads' = r.sleeping
         /\ kn_sleep_counter' = r.counter
  /\ ticks' = ticks + 1
  /\ ticked' = TRUE
  /\ UNCHANGED <<MAX_THREADS, kn_cur_thread, kn_cur_thread_mask,
                 kn_disabled_threads, kn_suspended_threads, kn_stack, sreg_i,
                 pc, ctx, frame, cr, ll_millis, prog>>

TickISR == Tick(MaxTicks)

----------------------------------------------------------------------------
(* History variables.  Each step of a specification is a kernel action and  *)
(* the observers' record of it; e names the action and its arguments.       *)

\* where a switch of the scheduler lands: the places a saved context resumes
ResumePcs == {"boot", "yield_ret", "sleep_ret", "suspend_ret"}

Ev(op) == [op |-> op]
EvT(op, t_id) == [op |-> op, t_id |-> t_id]
EvR(op, t_id, ret) == [op |-> op, t_id |-> t_id, ret |-> ret]

\* per slot, how its suspension last changed: "susp" when kn_suspend or a
\* create with suspended = true suspended the thread of an enabled slot,
\* "run" by kn_resume, "recreated" when a create with suspended = false
\* cleared the bit of a suspended slot
SuspLogNext(e) ==
  susp_log' =
    CASE e.op = "suspend" /\ e.t_id \notin kn_disabled_threads ->
           [susp_log EXCEPT ![e.t_id] = "susp"]
      [] e.op = "resume" -> [susp_log EXCEPT ![e.t_id] = "run"]
      [] e.op = "create_write" ->
           [susp_log EXCEPT ![cr.t_id] =
              IF cr.suspended THEN "susp"
              ELSE IF @ = "susp" THEN "recreated" ELSE @]
      [] OTHER -> susp_log

\* per slot, the kn_sleep call it is in: the counter value T at the atomic
\* block, the argument ms, the number of counter overflows until then,
\* whether every other slot was disabled or suspended (nobody else can run),
\* and what kn_millis() is when the call returns to the slot
SleepCallNext(e) ==
  sleep_call' =
    CASE e.op \in {"sleep", "sleep_long", "sleep_ret"} /\ pc' = "sleep_yield" ->
           [sleep_call EXCEPT ![kn_cur_thread] =
              [T |-> kn_system_counter, ms |-> kn_sleep_counter'[kn_cur_thread],
               w |-> wraps, ret |-> None,
               alone |-> \A j \in Threads \ {kn_cur_thread} :
                           j \in kn_disabled_threads \cup kn_suspended_threads]]
      [] e.op = "sleep_ret" /\ pc' # "sleep_yield" ->
           [sleep_call EXCEPT ![kn_cur_thread] = None]
      [] e.op = "create_begin" -> [sleep_call EXCEPT ![e.t_id] = None]
      [] e.op \in {"yield", "scheduler"} /\ pc' = "sleep_ret"
         /\ sleep_call[kn_cur_thread'] # None ->
           [sleep_call EXCEPT ![kn_cur_thread'].ret =
              [v |-> MillisValue, w |-> wraps]]
      [] OTHER -> sleep_call

\* the last two values kn_millis returned, each with the overflows so far
MillisObsNext(e) ==
  millis_obs' =
    IF e.op = "millis"
    THEN [prev |-> millis_obs.last, last |-> [v |-> MillisValue, w |-> wraps]]
    ELSE millis_obs

\* the round-robin watch: the yields of the application so far, the calls
\* that changed other slots, and whether (and after how many yields) the
\* watched slot j has been switched to
RrNext(e) ==
  LET y == IF e.op = "yield" THEN rr.yields + 1 ELSE rr.yields
      lands == /\ e.op \in {"yield", "scheduler"}
               /\ pc' \in ResumePcs
               /\ kn_cur_thread' = rr.j
  IN  rr' = [rr EXCEPT
               !.yields = y,
               !.calls = IF e.op \in {"resume", "suspend", "disable", "create_begin"}
                         THEN @ + 1 ELSE @,
               !.ran = @ \/ lands,
               !.at = IF ~rr.ran /\ lands THEN y ELSE @]

\* one pass of kn_sleep_long's loop: the chunk it hands to kn_sleep is added
\* to the sum of the chunks so far (not reduced to 32 bits)
SlNext(e) ==
  sl' =
    CASE e.op = "pass" ->
           LET p == SleepLongPass(sl.millis)
           IN  [sl EXCEPT !.millis = p.millis, !.sleep_time = p.sleep_time,
                          !.sum = U32Plus(@, p.sleep_time), !.n = @ + 1]
      [] e.op = "return" -> [sl EXCEPT !.at = "done"]
      [] OTHER -> sl

\* the call of the step just taken, whether it repeats the call of the step
\* before it, and the slots the tick ISR has woken that have not called
\* kn_sleep since.  A tick of the timer is recorded together with the
\* snapshot it took and the number of slots its loop examined.
LastNext(e) ==
  LET ev == IF e.op = "tick"
            THEN [op |-> "tick", snap |-> kn_sleeping_threads,
                  examined |-> IsrLoop(kn_sleeping_threads, THREAD0,
                                       kn_sleep_counter).t_id]
            ELSE e
      w == CASE e.op = "tick" ->
                  last.woken \cup (kn_sleeping_threads \ kn_sleeping_threads')
             [] e.op \in {"sleep", "sleep_long", "sleep_ret"}
                /\ pc' = "sleep_yield" -> last.woken \ {kn_cur_thread}
             [] OTHER -> last.woken
  IN  last' = [ev |-> ev, rep |-> (last.ev = ev), woken |-> w]

ObsCalls(e) ==
  /\ LastNext(e)
  /\ UNCHANGED <<susp_log, sleep_call, millis_obs, rr, sl>>

ObsMain(e) ==
  /\ SuspLogNext(e)
  /\ UNCHANGED <<sleep_call, millis_obs, rr, last, sl>>

ObsTime(e) ==
  /\ SleepCallNext(e)
  /\ MillisObsNext(e)
  /\ UNCHANGED <<susp_log, rr, last, sl>>

ObsSched(e) ==
  /\ RrNext(e)
  /\ UNCHANGED <<susp_log, sleep_call, millis_obs, last, sl>>

ObsLong(e) ==
  /\ SlNext(e)
  /\ UNCHANGED <<susp_log, sleep_call, millis_obs, rr, last>>

----------------------------------------------------------------------------
(* The kernel under an application that may make any call at any time, and  *)
(* a timer whose interrupt is taken whenever interrupts are enabled.         *)
Next ==
  \/ \E t_id \in Threads, e \in Entries, s \in BOOLEAN, a \in Args :
       CreateBegin(t_id, e, s, a) /\ ObsMain(EvT("create_begin", t_id))
  \/ CreateWrite /\ ObsMain(Ev("create_write"))
  \/ \E t_id \in Threads : kn_disable(t_id) /\ ObsMain(EvT("disable", t_id))
  \/ \E t_id \in Threads : kn_resume(t_id) /\ ObsMain(EvT("resume", t_id))
  \/ \E t_id \in Threads : kn_suspend(t_id) /\ ObsMain(EvT("suspend", t_id))
  \/ \E ms \in SleepArgs : kn_sleep(ms) /\ ObsMain(Ev("sleep"))
  \/ \E ms \in LongArgs : kn_sleep_long(ms) /\ ObsMain(Ev("sleep_long"))
  \/ SleepReturn /\ ObsMain(Ev("sleep_ret"))
  \/ kn_yield /\ ObsMain(Ev("yield"))
  \/ kn_scheduler /\ ObsMain(Ev("scheduler"))
  \/ kn_thread_bootstrap /\ ObsMain(Ev("boot"))
  \/ ReturnToCaller /\ ObsMain(Ev("return"))
  \/ kn_millis /\ ObsMain(Ev("millis"))
  \/ AppSei /\ ObsMain(Ev("sei"))
  \/ TickISR /\ ObsMain(Ev("tick"))

Spec == Init /\ [][Next]_vars

\* the counter two ticks before its overflow, thread 0 alone and running
\* with interrupts enabled: the state 2^32 - 2 ticks after sei()
WrapStart == U32(UINT16_MAX, UINT16_MAX - 1)

InitWrap ==
  /\ \E n \in 1..MaxThreads : KernelInit(n, WrapStart)
  /\ sreg_i = TRUE
  /\ ObserversInit

NextWrap ==
  \/ \E t_id \in Threads, e \in Entries, s \in BOOLEAN, a \in Args :
       CreateBegin(t_id, e, s, a) /\ ObsTime(EvT("create_begin", t_id))
  \/ CreateWrite /\ ObsTime(Ev("create_write"))
  \/ \E t_id \in Threads : kn_disable(t_id) /\ ObsTime(EvT("disable", t_id))
  \/ \E t_id \in Threads : kn_resume(t_id) /\ ObsTime(EvT("resume", t_id))
  \/ \E t_id \in Threads : kn_suspend(t_id) /\ ObsTime(EvT("suspend", t_id))
  \/ \E ms \in SleepArgs : kn_sleep(ms) /\ ObsTime(Ev("sleep"))
  \/ \E ms \in LongArgs : kn_sleep_long(ms) /\ ObsTime(Ev("sleep_long"))
  \/ SleepReturn /\ ObsTime(Ev("sleep_ret"))
  \/ kn_yield /\ ObsTime(Ev("yield"))
  \/ kn_scheduler /\ ObsTime(Ev("scheduler"))
  \/ kn_thread_bootstrap /\ ObsTime(Ev("boot"))
  \/ ReturnToCaller /\ ObsTime(Ev("return"))
  \/ kn_millis /\ ObsTime(Ev("millis"))
  \/ AppSei /\ ObsTime(Ev("sei"))
  \/ TickISR /\ ObsTime(Ev("tick"))

SpecWrap == InitWrap /\ [][NextWrap]_vars

\* F_CPU is 16 MHz and the tick period 16000 cycles (kernel.c:268-273): the
\* CPU executes between two ticks, so a tick follows a step of the CPU
NextTimed ==
  \/ \E t_id \in Threads, e \in Entries, s \in BOOLEAN, a \in Args :
       CreateBegin(t_id, e, s, a) /\ ObsTime(EvT("create_begin", t_id))
  \/ CreateWrite /\ ObsTime(Ev("create_write"))
  \/ \E t_id \in Threads : kn_disable(t_id) /\ ObsTime(EvT("disable", t_id))
  \/ \E t_id \in Threads : kn_resume(t_id) /\ ObsTime(EvT("resume", t_id))
  \/ \E t_id \in Threads : kn_suspend(t_id) /\ ObsTime(EvT("suspend", t_id))
  \/ \E ms \in SleepArgs : kn_sleep(ms) /\ ObsTime(Ev("sleep"))
  \/ \E ms \in LongArgs : kn_sleep_long(ms) /\ ObsTime(Ev("sleep_long"))
  \/ SleepReturn /\ ObsTime(Ev("sleep_ret"))
  \/ kn_yield /\ ObsTime(Ev("yield"))
  \/ kn_scheduler /\ ObsTime(Ev("scheduler"))
  \/ kn_thread_bootstrap /\ ObsTime(Ev("boot"))
  \/ ReturnToCaller /\ ObsTime(Ev("return"))
  \/ kn_millis /\ ObsTime(Ev("millis"))
  \/ AppSei /\ ObsTime(Ev("sei"))
  \/ ~ticked /\ TickISR /\ ObsTime(Ev("tick"))

SpecTimed == Init /\ [][NextTimed]_vars

----------------------------------------------------------------------------
(* The kernel with every step tagged by the call it makes, the queries     *)
(* included.                                                                *)
NextCalls ==
  \/ \E t_id \in Threads, e \in Entries, s \in BOOLEAN, a \in Args :
       CreateBegin(t_id, e, s, a) /\ ObsCalls(EvT("create_begin", t_id))
  \/ CreateWrite /\ ObsCalls(Ev("create_write"))
  \/ \E t_id \in Threads : kn_disable(t_id) /\ ObsCalls(EvT("disable", t_id))
  \/ \E t_id \in Threads : kn_resume(t_id) /\ ObsCalls(EvT("resume", t_id))
  \/ \E t_id \in Threads : kn_suspend(t_id) /\ ObsCalls(EvT("suspend", t_id))
  \/ \E ms \in SleepArgs : kn_sleep(ms) /\ ObsCalls(Ev("sleep"))
  \/ \E ms \in LongArgs : kn_sleep_long(ms) /\ ObsCalls(Ev("sleep_long"))
  \/ SleepReturn /\ ObsCalls(Ev("sleep_ret"))
  \/ kn_yield /\ ObsCalls(Ev("yield"))
  \/ kn_scheduler /\ ObsCalls(Ev("scheduler"))
  \/ kn_thread_bootstrap /\ ObsCalls(Ev("boot"))
  \/ ReturnToCaller /\ ObsCalls(Ev("return"))
  \/ kn_millis /\ ObsCalls(Ev("millis"))
  \/ \E t_id \in Threads :
       kn_thread_enabled(t_id)
       /\ ObsCalls(EvR("enabled", t_id, ThreadEnabled(t_id)))
  \/ \E t_id \in Threads :
       kn_thread_suspended(t_id)
       /\ ObsCalls(EvR("suspended", t_id, ThreadSuspended(t_id)))
  \/ \E t_id \in Threads :
       kn_thread_sleeping(t_id)
       /\ ObsCalls(EvR("sleeping", t_id, ThreadSleeping(t_id)))
  \/ AppSei /\ ObsCalls(Ev("sei"))
  \/ TickISR /\ ObsCalls(Ev("tick"))

SpecCalls == Init /\ [][NextCalls]_vars

----------------------------------------------------------------------------
(* A thread that sleeps while no other slot can run: the scheduler idles    *)
(* until the tick ISR has woken it.  The timer keeps firing (at most one    *)
(* tick between two steps of the CPU) and the CPU keeps executing; a sleep  *)
(* is started only while the run has the ticks left that it needs.          *)
IdleSleepArgs == 1..IdleSleep

NextIdle ==
  \/ AppSei /\ ObsTime(Ev("sei"))
  \/ \E ms \in IdleSleepArgs :
       ticks + ms <= IdleTicks /\ kn_sleep(ms) /\ ObsTime(Ev("sleep"))
  \/ kn_yield /\ ObsTime(Ev("yield"))
  \/ kn_scheduler /\ ObsTime(Ev("scheduler"))
  \/ SleepReturn /\ ObsTime(Ev("sleep_ret"))
  \/ ReturnToCaller /\ ObsTime(Ev("return"))
  \/ ~ticked /\ Tick(IdleTicks) /\ ObsTime(Ev("tick"))

IdleTick == ~ticked /\ Tick(IdleTicks) /\ ObsTime(Ev("tick"))
IdleYield == kn_yield /\ ObsTime(Ev("yield"))
IdleScheduler == kn_scheduler /\ ObsTime(Ev("scheduler"))

SpecIdle ==
  /\ Init
  /\ [][NextIdle]_vars
  /\ WF_vars(IdleTick)
  /\ WF_vars(IdleYield)
  /\ WF_vars(IdleScheduler)

----------------------------------------------------------------------------
(* Round robin, for every slot count the kernel can be built with.  The     *)
(* kernel starts in a state the application has already built: the current  *)
(* slot c runs, the watched slot j is ready, and the other slots are ready, *)
(* disabled, created suspended, or asleep, by the pattern p.                *)

SlotKinds == <<"ready", "disabled", "suspended", "sleeping">>

SlotKind(k, c, j, p) ==
  IF k = c THEN "cur"
  ELSE IF k = j THEN "ready"
  ELSE SlotKinds[((k * p) % 4) + 1]

SchedInit(n, c, j, p) ==
  LET kind(k) == SlotKind(k, c, j, p)
      S == 0..(n - 1)
  IN  /\ MAX_THREADS = n
      /\ kn_cur_thread = c
      /\ kn_cur_thread_mask = bit_to_mask(c)
      /\ kn_disabled_threads =
           (Bits \ S) \cup {k \in S : kind(k) = "disabled"}
      /\ kn_suspended_threads = {k \in S : kind(k) = "suspended"}
      /\ kn_sleeping_threads = {k \in S : kind(k) = "sleeping"}
      /\ kn_sleep_counter = [k \in S |-> IF kind(k) = "sleeping" THEN 1 ELSE 0]
      /\ kn_stack =
           [k \in S |->
              CASE kind(k) \in {"cur", "ready"} ->
                     kn_stack_base(k) - YieldFrame("app")
                [] kind(k) = "sleeping" ->
                     kn_stack_base(k) - YieldFrame("sleep_yield")
                [] kind(k) = "suspended" -> CreateStack(k)
                [] OTHER -> kn_stack_base(k)]
      /\ ctx = [k \in S |->
                  CASE kind(k) = "cur" -> "running"
                    [] kind(k) = "ready" -> "yield_ret"
                    [] kind(k) = "sleeping" -> "sleep_ret"
                    [] kind(k) = "suspended" -> "boot"
                    [] OTHER -> "none"]
      /\ frame = [k \in S |->
                    IF kind(k) = "suspended"
                    THEN [entry |-> "E1", arg |-> "A1", t_id |-> k]
                    ELSE None]
      /\ prog = [k \in S |->
                   IF kind(k) \in {"cur", "ready", "sleeping"}
                   THEN IF k = THREAD0 THEN [entry |-> "main"]
                        ELSE [entry |-> "E1", arg |-> "A1"]
                   ELSE None]
      /\ kn_system_counter = U32Zero
      /\ sreg_i = TRUE
      /\ pc = "app"
      /\ cr = None
      /\ ll_millis = [k \in S |-> U32Zero]
      /\ ticks = 0
      /\ wraps = 0
      /\ ticked = FALSE
      /\ susp_log = [k \in S |-> IF kind(k) = "suspended" THEN "susp" ELSE "run"]
      /\ sleep_call = [k \in S |-> None]
      /\ millis_obs = [prev |-> None, last |-> None]
      /\ sl = SlIdle
      /\ last = LastInit
      /\ rr = [j |-> j, yields |-> 0, calls |-> 0, ran |-> FALSE, at |-> 0]

InitSched ==
  \E n \in 1..MAX_SLOTS :
    \E c \in 0..(n - 1), j \in 0..(n - 1), p \in 0..3 : SchedInit(n, c, j, p)

\* the calls that leave slot j runnable and in which no slot puts itself to
\* sleep, suspends itself or disables itself
NextSched ==
  \/ /\ rr.yields < MAX_THREADS
     /\ kn_yield /\ ObsSched(Ev("yield"))
  \/ kn_scheduler /\ ObsSched(Ev("scheduler"))
  \/ kn_thread_bootstrap /\ ObsSched(Ev("boot"))
  \/ ReturnToCaller /\ ObsSched(Ev("return"))
  \/ /\ rr.calls < MaxCalls
     /\ \E t_id \in Threads : kn_resume(t_id) /\ ObsSched(EvT("resume", t_id))
  \/ /\ rr.calls < MaxCalls
     /\ \E t_id \in Threads \ {rr.j, kn_cur_thread} :
          kn_suspend(t_id) /\ ObsSched(EvT("suspend", t_id))
  \/ /\ rr.calls < MaxCalls
     /\ \E t_id \in Threads \ {rr.j, kn_cur_thread} :
          kn_disable(t_id) /\ ObsSched(EvT("disable", t_id))
  \/ /\ rr.calls < MaxCalls
     /\ \E t_id \in Threads, e \in Entries, s \in BOOLEAN, a \in Args :
          /\ t_id = rr.j => ~s
          /\ CreateBegin(t_id, e, s, a) /\ ObsSched(EvT("create_begin", t_id))
  \/ CreateWrite /\ ObsSched(Ev("create_write"))
  \/ TickISR /\ ObsSched(Ev("tick"))

SpecSched == InitSched /\ [][NextSched]_vars

----------------------------------------------------------------------------
(* kn_sleep_long's loop alone (kernel.c:310-324), for arguments over the    *)
(* whole 32-bit range: each pass hands one chunk to kn_sleep.               *)

LongHis == {0, 1, 2, UINT16_MAX}
LongLos == {0, 1, 4464, 4465, UINT16_MAX - 1, UINT16_MAX}
LongInputs == {U32(h, l) : h \in LongHis, l \in LongLos}

InitLong ==
  /\ KernelInit(1, U32Zero)
  /\ sreg_i = FALSE
  /\ susp_log = [i \in Threads |-> "run"]
  /\ sleep_call = [i \in Threads |-> None]
  /\ millis_obs = [prev |-> None, last |-> None]
  /\ rr = None
  /\ last = LastInit
  /\ \E a \in LongInputs :
       sl = [arg |-> a, millis |-> a, sleep_time |-> 0, sum |-> U32Zero,
             n |-> 0, at |-> "loop"]

\* kernel.c:310: while (millis)
LongLoops == sl.at = "loop" /\ sl.millis # U32Zero

NextLong ==
  \/ LongLoops /\ ObsLong(Ev("pass")) /\ UNCHANGED kvars
  \/ sl.at = "loop" /\ ~LongLoops /\ ObsLong(Ev("return")) /\ UNCHANGED kvars

SpecLong == InitLong /\ [][NextLong]_vars

----------------------------------------------------------------------------
(* Claims checked under Spec *)

\* the points at which a slot the scheduler switched to resumes
\* a public call has returned to the application, or the ISR just completed
AtObservation == pc = "app" \/ ticked

\* C1 (I3, as claimed): after every public call and after every ISR
\* completion, a slot whose sleeping bit is set has sleep_counter > 0, for
\* every argument kn_sleep accepts.  kn_sleep(0) breaks it.
C1_SleepingHasCounter ==
  AtObservation =>
    \A i \in Threads : i \in kn_sleeping_threads => kn_sleep_counter[i] > 0

\* C2 (I1, as claimed): after every public call and after every ISR
\* completion, idle ones included, the current slot is one slot of [0, N)
\* and is not disabled.
CurrentIsEnabled ==
  /\ kn_cur_thread \in Threads
  /\ kn_cur_thread_mask = bit_to_mask(kn_cur_thread)
  /\ kn_cur_thread \notin kn_disabled_threads
C2_CurrentEnabledAtEveryObservation == AtObservation => CurrentIsEnabled

\* C2 (amended): the current slot is one slot of [0, N) and is not disabled
\* whenever a thread executes, that is everywhere but between
\* kn_disable(self) setting the bit and the scheduler switching away (the
\* idle loop included).
C2_CurrentEnabledWhileRunning ==
  pc \notin {"sched_call", "idle"} => CurrentIsEnabled

\* C2 witness: a thread disabled itself and another slot took over
C2_Witness ==
  /\ pc \in ResumePcs
  /\ \E i \in Threads : /\ i # kn_cur_thread
                        /\ i \in kn_disabled_threads
                        /\ ctx[i] = "running"

\* C4 (I5): when kn_create_thread_impl has done its updates, whatever the
\* slot was before and whether or not the ISR ran inside the call, slot id
\* is enabled, not sleeping, suspended exactly if asked, its counter is 0
\* and its saved stack pointer is base - INITIAL_STACK_USAGE.
C4_CreatePostcondition ==
  (cr # None /\ pc \in {"create_ret", "sched_call"}) =>
    /\ cr.t_id \notin kn_disabled_threads
    /\ cr.t_id \notin kn_sleeping_threads
    /\ (cr.t_id \in kn_suspended_threads) = cr.suspended
    /\ kn_sleep_counter[cr.t_id] = 0
    /\ kn_stack[cr.t_id] = kn_stack_base(cr.t_id) - INITIAL_STACK_USAGE
    /\ kn_stack[cr.t_id] >= kn_stack_base(cr.t_id) - INITIAL_STACK_USAGE
    /\ kn_stack[cr.t_id] < kn_stack_base(cr.t_id)

\* C4 witness: a create over a slot that was sleeping, with a tick between
\* its last store and its return
C4_Witness ==
  /\ pc = "create_ret"
  /\ ticked
  /\ cr.t_id \in cr.loaded

\* C10 (as claimed): no tick ISR runs between a thread-context load of the
\* sleeping byte and its store: kn_sleep's pair is one atomic step, the
\* pair of kn_create_thread_impl is open while pc = "create_wr".
C10_NoTickInsideSleepingUpdate ==
  [][pc = "create_wr" => ticks' = ticks]_vars

\* C3 (as stated): the slot a switch lands on is runnable, and a slot that
\* was suspended is not switched to before some thread has called kn_resume
\* on it.
C3_SuspendedOutUntilResume ==
  pc \in ResumePcs =>
    /\ Runnable(kn_cur_thread)
    /\ susp_log[kn_cur_thread] = "run"

\* C3 (amended): the slot a switch lands on is runnable, and a slot that was
\* suspended is not switched to before some thread has called kn_resume on it
\* or has created it again with suspended = false.
C3_SuspendedOutUntilResumeOrCreate ==
  pc \in ResumePcs =>
    /\ Runnable(kn_cur_thread)
    /\ susp_log[kn_cur_thread] # "susp"

\* a switch that passed over a suspended slot and a disabled one
C3_Witness ==
  /\ pc \in ResumePcs
  /\ ticks > 0
  /\ \E i \in Threads : susp_log[i] = "susp" /\ i \in kn_suspended_threads
                        /\ i \notin kn_disabled_threads
                        /\ ctx[i] \in ResumePcs

----------------------------------------------------------------------------
(* Claims checked under SpecWrap *)

\* C6 (as stated): of two successive values returned by kn_millis, the later
\* is greater than or equal to the earlier.
C6_MillisNeverDecreases ==
  millis_obs.prev # None => U32Le(millis_obs.prev.v, millis_obs.last.v)

\* C6 (amended): of two successive values returned by kn_millis with no
\* overflow of the 32-bit counter between them, the later is greater than or
\* equal to the earlier.
C6_MillisNondecreasingWithoutOverflow ==
  (millis_obs.prev # None /\ millis_obs.prev.w = millis_obs.last.w) =>
    U32Le(millis_obs.prev.v, millis_obs.last.v)

\* two readings with ticks but no overflow between them
C6_Witness ==
  /\ millis_obs.prev # None
  /\ millis_obs.prev.w = millis_obs.last.w
  /\ U32Lt(millis_obs.prev.v, millis_obs.last.v)

\* the slot whose kn_sleep has just returned to it, and its call
SleepReturned ==
  /\ pc = "sleep_ret"
  /\ sleep_call[kn_cur_thread] # None
  /\ sleep_call[kn_cur_thread].ret # None

\* C7 (as stated): kn_sleep(t) called at counter value T has not returned to
\* the sleeping thread while kn_millis() < T + t.
C7_SleepNotBeforeDeadline ==
  SleepReturned =>
    LET c == sleep_call[kn_cur_thread]
    IN  U32Le(U32Plus(c.T, c.ms), c.ret.v)

\* C7 (amended): kn_sleep(t) called at counter value T has not returned to
\* the sleeping thread while kn_millis() < T + t, as long as the 32-bit
\* counter has not overflowed since the call.
C7_SleepNotBeforeDeadlineWithoutOverflow ==
  (SleepReturned /\ sleep_call[kn_cur_thread].w = sleep_call[kn_cur_thread].ret.w) =>
    LET c == sleep_call[kn_cur_thread]
    IN  U32Le(U32Plus(c.T, c.ms), c.ret.v)

\* a sleep of at least one tick that returned while other threads ran
C7_Witness ==
  /\ SleepReturned
  /\ sleep_call[kn_cur_thread].w = sleep_call[kn_cur_thread].ret.w
  /\ sleep_call[kn_cur_thread].ms > 0
  /\ ~sleep_call[kn_cur_thread].alone

----------------------------------------------------------------------------
(* Claims checked under SpecTimed *)

\* C8 (as stated): with no other thread able to run, kn_sleep(ms) called at
\* counter value T returns with kn_millis() <= T + ms + 1: the caller is
\* neither asleep nor just returned at a later counter value.
C8_SleepUpperBound ==
  \A i \in Threads :
    (sleep_call[i] # None /\ sleep_call[i].alone) =>
      LET c == sleep_call[i]
          bound == U32Plus(U32Plus(c.T, c.ms), 1)
      IN  /\ c.ret # None => U32Le(c.ret.v, bound)
          /\ i \in kn_sleeping_threads => U32Le(MillisValue, bound)

----------------------------------------------------------------------------
(* Claims checked under SpecSched *)

\* C5: while slot j stays runnable and no slot puts itself to sleep, suspends
\* itself or disables itself, slot j has been switched to once the threads
\* have yielded N times, for every slot count N in 1..8 and every current
\* slot.
C5_RoundRobinWithinN ==
  rr.yields >= MAX_THREADS => rr.ran

\* eight slots, and slot j is reached by the eighth yield and not before
C5_Witness ==
  /\ MAX_THREADS = MAX_SLOTS
  /\ rr.ran
  /\ rr.at = MAX_SLOTS

----------------------------------------------------------------------------
(* Claims checked under SpecLong *)

\* C9: when kn_sleep_long(ms32) returns, the chunks it handed to kn_sleep sum
\* to exactly ms32.
C9_ChunksSumToArgument ==
  sl.at = "done" => sl.sum = sl.arg

\* 70000 slept as 65535 + 4465
C9_Witness ==
  /\ sl.at = "done"
  /\ sl.arg = U32(1, 4464)
  /\ sl.n = 2
  /\ sl.sleep_time = 4465

\* ceil(ms32 / 65535) for ms32 = hi * 2^16 + lo = hi * 65535 + (hi + lo)
LongChunks(ms32) == ms32.hi + ((ms32.hi + ms32.lo + UINT16_MAX - 1) \div UINT16_MAX)

\* C20: every chunk kn_sleep_long hands to kn_sleep lies in 1..65535, every
\* chunk that is not the last one is 65535, the loop ends after
\* ceil(ms32 / 65535) chunks, and kn_sleep_long(0) ends without handing any
\* chunk to kn_sleep.
C20_ChunksNeverZero ==
  /\ sl.n > 0 => sl.sleep_time \in 1..UINT16_MAX
  /\ (sl.n > 0 /\ sl.millis # U32Zero) => sl.sleep_time = UINT16_MAX
  /\ sl.at = "done" => sl.n = LongChunks(sl.arg)
  /\ (sl.at = "done" /\ sl.arg = U32Zero) => sl.n = 0

\* 65536 slept as 65535 + 1
C20_Witness ==
  /\ sl.at = "done"
  /\ sl.arg = U32(1, 0)
  /\ sl.n = 2
  /\ sl.sleep_time = 1
  /\ sl.sum = sl.arg

----------------------------------------------------------------------------
(* Claims checked under SpecCalls *)

\* the sets and counters the laws are about
KState ==
  <<kn_disabled_threads, kn_suspended_threads, kn_sleeping_threads,
    kn_sleep_counter>>

\* the step just taken is the call op on slot id
Called(op, id) == last'.ev = EvT(op, id)

\* C11: a kn_suspend(id) that follows a kn_suspend(id), and a kn_disable(id)
\* that follows a kn_disable(id), leave the disabled, suspended and sleeping
\* sets and the sleep counters as the first call left them; kn_resume(id) on
\* a slot whose suspended bit is clear changes none of them.
C11_Idempotence ==
  [][\A id \in Threads :
       /\ (last.ev = EvT("suspend", id) /\ Called("suspend", id)) =>
            UNCHANGED KState
       /\ (last.ev = EvT("disable", id) /\ Called("disable", id)) =>
            UNCHANGED KState
       /\ (id \notin kn_suspended_threads /\ Called("resume", id)) =>
            UNCHANGED KState]_vars

\* a kn_disable repeated on an enabled slot that is asleep
C11_Witness ==
  /\ last.rep
  /\ last.ev.op = "disable"
  /\ last.ev.t_id \in kn_sleeping_threads
  /\ kn_sleep_counter[last.ev.t_id] > 0

\* C12: in every reachable state and for every slot, kn_thread_enabled is
\* true iff the disabled bit is clear, kn_thread_suspended iff the disabled
\* bit is clear and the suspended bit set, kn_thread_sleeping iff the disabled
\* bit is clear and the sleeping bit set; and a query returns that value.
C12_QueryPredicates ==
  /\ \A id \in Threads :
       /\ ThreadEnabled(id) <=> id \notin kn_disabled_threads
       /\ ThreadSuspended(id) <=>
            (id \notin kn_disabled_threads /\ id \in kn_suspended_threads)
       /\ ThreadSleeping(id) <=>
            (id \notin kn_disabled_threads /\ id \in kn_sleeping_threads)
  /\ last.ev.op = "enabled" =>
       last.ev.ret = (last.ev.t_id \notin kn_disabled_threads)
  /\ last.ev.op = "suspended" =>
       last.ev.ret = (/\ last.ev.t_id \notin kn_disabled_threads
                      /\ last.ev.t_id \in kn_suspended_threads)
  /\ last.ev.op = "sleeping" =>
       last.ev.ret = (/\ last.ev.t_id \notin kn_disabled_threads
                      /\ last.ev.t_id \in kn_sleeping_threads)

\* kn_thread_sleeping returned false for a disabled slot whose suspended and
\* sleeping bits are both set
C12_Witness ==
  /\ last.ev.op = "sleeping"
  /\ ~last.ev.ret
  /\ last.ev.t_id \in kn_disabled_threads
  /\ last.ev.t_id \in kn_suspended_threads
  /\ last.ev.t_id \in kn_sleeping_threads

\* C13: kn_resume(id) removes id from the suspended set and changes nothing
\* else: the disabled set, the sleeping set, the sleep counters, the other
\* slots' suspended bits and the current thread stay as they were.
C13_ResumeFrame ==
  [][\A id \in Threads :
       Called("resume", id) =>
         /\ kn_suspended_threads' = kn_suspended_threads \ {id}
         /\ UNCHANGED <<kn_disabled_threads, kn_sleeping_threads,
                        kn_sleep_counter, kn_cur_thread, kn_cur_thread_mask>>]_vars

\* a kn_resume of a disabled slot that is asleep: it stays disabled and asleep
C13_Witness ==
  /\ last.ev.op = "resume"
  /\ last.ev.t_id \in kn_disabled_threads
  /\ last.ev.t_id \in kn_sleeping_threads
  /\ last.ev.t_id \notin kn_suspended_threads
  /\ kn_sleep_counter[last.ev.t_id] > 0

\* the calls that never give up the CPU, as the step just taken
NonSuspendingCall ==
  \/ \E id \in Threads : Called("resume", id)
  \/ \E id \in Threads \ {kn_cur_thread} :
       Called("suspend", id) \/ Called("disable", id)
  \/ last'.ev.op = "create_write" /\ cr.t_id # kn_cur_thread
  \/ last'.ev.op \in {"millis", "enabled", "suspended", "sleeping"}

\* C14: the current thread changes only in a switch of the scheduler, which
\* is entered only from kn_yield, kn_sleep (kn_sleep_long's chunks), a
\* kn_suspend or kn_disable of the current slot and a create of the current
\* slot; kn_resume, kn_suspend, kn_disable and create of another slot,
\* kn_millis and the three queries leave the current thread as it was and
\* return to their caller.
C14_SuspensionPoints ==
  [][/\ kn_cur_thread' # kn_cur_thread =>
          /\ last'.ev.op \in {"yield", "scheduler"}
          /\ pc \in {"app", "sleep_yield", "suspend_yield", "sched_call", "idle"}
     /\ (pc' = "idle" /\ pc # "idle") => last'.ev.op \in {"yield", "scheduler"}
     /\ (pc' = "sched_call" /\ pc # "sched_call") =>
          \/ Called("disable", kn_cur_thread)
          \/ last'.ev.op = "create_write" /\ cr.t_id = kn_cur_thread
     /\ (pc' = "suspend_yield" /\ pc # "suspend_yield") =>
          Called("suspend", kn_cur_thread)
     /\ (pc' = "sleep_yield" /\ pc # "sleep_yield") =>
          last'.ev.op \in {"sleep", "sleep_long", "sleep_ret"}
     /\ NonSuspendingCall =>
          /\ kn_cur_thread' = kn_cur_thread
          /\ pc' = IF last'.ev.op = "create_write" THEN "create_ret" ELSE "app"]_vars

\* a thread other than thread 0 disabled another slot and runs on
C14_Witness ==
  /\ last.ev.op = "disable"
  /\ last.ev.t_id # kn_cur_thread
  /\ kn_cur_thread # THREAD0
  /\ pc = "app"

\* C15: kn_disable and create of the current slot enter the scheduler and do
\* not return: from there only the scheduler's switch follows, no stack
\* pointer is saved, and no slot ever resumes at a context that was not
\* saved.  A slot that runs after a create starts on the initial frame that
\* create wrote, at its entry point with its argument; a disabled slot is
\* enabled again only by a create.
C15_SelfAbandonNeverReturns ==
  [][/\ pc' # "running"
     /\ pc = "sched_call" =>
          /\ last'.ev.op \in {"scheduler", "tick"}
          /\ pc' \in ResumePcs \cup {"idle", "sched_call"}
          /\ kn_stack' = kn_stack
          /\ (pc' \in ResumePcs /\ kn_cur_thread' = kn_cur_thread) => pc' = "boot"
     /\ pc' = "boot" =>
          /\ frame'[kn_cur_thread'] # None
          /\ frame'[kn_cur_thread'].t_id = kn_cur_thread'
          /\ kn_stack'[kn_cur_thread'] =
               kn_stack_base(kn_cur_thread') - INITIAL_STACK_USAGE
     /\ last'.ev.op = "boot" =>
          /\ prog'[kn_cur_thread].entry = frame[kn_cur_thread].entry
          /\ prog'[kn_cur_thread].arg = frame[kn_cur_thread].arg
     /\ \A i \in Threads :
          (i \in kn_disabled_threads /\ i \notin kn_disabled_threads') =>
            Called("create_begin", i)]_vars

\* thread 0, started as main, has replaced itself (slot 1 was never created)
\* and runs the new entry point
C15_Witness ==
  /\ MAX_THREADS = 2
  /\ ctx[1] = "none"
  /\ kn_cur_thread = THREAD0
  /\ pc = "app"
  /\ prog[THREAD0] = [entry |-> "E1", arg |-> "A1"]

----------------------------------------------------------------------------
(* The tick ISR, checked under SpecCalls *)

\* the step just taken is one execution of the tick ISR
Ticked == last'.ev.op = "tick"

\* C17: one execution of the tick ISR adds one to the system counter and
\* otherwise changes only the sleeping set and the sleep counters of slots
\* whose sleeping bit was set on entry: the disabled set, the suspended set,
\* the current thread id and mask, every saved stack pointer and the sleep
\* counter of every slot that was not sleeping are unchanged, and no sleeping
\* bit is set.
C17_TickFrame ==
  [][Ticked =>
       /\ UNCHANGED <<MAX_THREADS, kn_disabled_threads, kn_suspended_threads,
                      kn_cur_thread, kn_cur_thread_mask, kn_stack>>
       /\ UNCHANGED <<sreg_i, pc, ctx, frame>>
       /\ kn_system_counter' = IsrCounterInc(kn_system_counter)
       /\ kn_sleeping_threads' \subseteq kn_sleeping_threads
       /\ \A i \in Threads :
            i \notin kn_sleeping_threads =>
              kn_sleep_counter'[i] = kn_sleep_counter[i]]_vars

\* a tick has just run with one slot asleep and another not; the sleeper's
\* counter was decremented
C17_Witness ==
  /\ last.ev.op = "tick"
  /\ MAX_THREADS = 2
  /\ Cardinality(last.ev.snap) = 1
  /\ \E i \in last.ev.snap : i \in kn_sleeping_threads /\ kn_sleep_counter[i] = 1

\* the highest slot index set in a non-empty snapshot
HighestSleeping(snap) == CHOOSE i \in snap : \A j \in snap : j <= i

\* C18 as stated: the walk of the tick ISR examines no slot whose index is
\* greater than the highest index set in the sleeping snapshot taken on entry.
C18_WalkBoundedByHighestSleeper ==
  last.ev.op = "tick" =>
    IF last.ev.snap = {}
    THEN last.ev.examined = 0
    ELSE last.ev.examined <= HighestSleeping(last.ev.snap) + 1

\* C18: the walk of the tick ISR examines no slot when the snapshot is empty;
\* otherwise it examines every slot up to the highest sleeper, never more than
\* MAX_THREADS slots, and it stops before slot MAX_THREADS only when every
\* sleeper of the snapshot has been woken by this tick.
C18_WalkBoundedByThreads ==
  last.ev.op = "tick" =>
    /\ last.ev.examined <= MAX_THREADS
    /\ last.ev.snap = {} => last.ev.examined = 0
    /\ last.ev.snap # {} => last.ev.examined > HighestSleeping(last.ev.snap)
    /\ last.ev.examined < MAX_THREADS => kn_sleeping_threads = {}

\* a tick whose snapshot held slot 0 only, which stayed asleep: the walk went
\* on to examine slot 1
C18_Witness ==
  /\ last.ev.op = "tick"
  /\ MAX_THREADS = 2
  /\ last.ev.snap = {0}
  /\ kn_sleeping_threads = {0}
  /\ last.ev.examined = 2

\* C19: a wake-up is never lost: once the tick ISR has cleared the sleeping
\* bit of a slot, the bit stays clear until that slot itself calls kn_sleep
\* again, whatever the other slots call in between.
C19_WakeupNeverLost == last.woken \cap kn_sleeping_threads = {}

----------------------------------------------------------------------------
(* Claims checked under SpecIdle *)

\* the scheduler idles while an enabled, non-suspended slot is asleep
IdleWaiting ==
  /\ pc = "idle"
  /\ \E i \in Threads :
       /\ i \notin kn_disabled_threads \cup kn_suspended_threads
       /\ i \in kn_sleeping_threads

\* C16: the scheduler idles with interrupts enabled; while the tick ISR keeps
\* firing, an idling scheduler with an enabled, non-suspended sleeper
\* eventually switches to a slot; and a slot that slept ms ticks from counter
\* value T with no other slot able to run is switched to when kn_millis()
\* reads T + ms.
C16_IdleUntilWoken ==
  /\ [](pc = "idle" => sreg_i)
  /\ (IdleWaiting ~> pc \in ResumePcs)
  /\ []((SleepReturned /\ sleep_call[kn_cur_thread].alone) =>
          sleep_call[kn_cur_thread].ret.v =
            U32Plus(sleep_call[kn_cur_thread].T, sleep_call[kn_cur_thread].ms))

\* slot 0 slept 5 ticks from counter value 0, the scheduler idled, and slot 0
\* is switched to at counter value 5
C16_Witness ==
  /\ SleepReturned
  /\ sleep_call[THREAD0].alone
  /\ kn_cur_thread = THREAD0
  /\ ticked
  /\ sleep_call[THREAD0].T = U32Zero
  /\ sleep_call[THREAD0].ms = 5
  /\ sleep_call[THREAD0].ret.v = U32(0, 5)
  /\ MAX_THREADS = 2

====
